---------------------------- MODULE Spec2Model ----------------------------
(***************************************************************************)
(* Model of migrate_java_files.py: the package relocator.                  *)
(*                                                                         *)
(* File content is a sequence of tokens.  Every token stands for a fixed   *)
(* character string and a content stands for the concatenation of its      *)
(* tokens.  The alphabet is chosen so that every match of the script's     *)
(* regular expressions and literal patterns in the concatenation begins    *)
(* and ends on a token boundary:                                           *)
(*   - OLD_PACKAGE and NEW_PACKAGE are single tokens (no other token       *)
(*     begins with "com");                                                 *)
(*   - the entry-point name SellTheOldCarApplication is the two tokens     *)
(*     "SellThe" "OldCarApplication", its replacement OldCarApplication    *)
(*     the single token "OldCarApplication";                               *)
(*   - " ", "\t" and "\n" are the white-space characters (\s), ";" and     *)
(*     "{" are the punctuation outside the class [a-zA-Z0-9_.];            *)
(*   - every other token is a word over [a-zA-Z0-9_] or the dot ".".       *)
(*                                                                         *)
(* Writing to the console (print) is taken not to fail; the exceptions     *)
(* modelled are those of reading the source and of creating and writing    *)
(* the destination.                                                        *)
(***************************************************************************)
EXTENDS Integers, Sequences, FiniteSets, TLC

VARIABLES
    content,        \* update_package_and_imports: the content passed in
    out,            \* update_package_and_imports: the content returned
    stage,          \* "input" before the call, "output" after it, "idle",
                    \* "rules" while the literal rules are applied alone
    applied,        \* the items of `replacements` already applied to out
    fs,             \* the file system: path |-> content, for existing files
    pc,             \* main: "idle", "loop", "test", "summary", "done", "aborted"
    idx,            \* main: position of the for loop in FILE_MAPPINGS
    success_count,  \* main: success_count
    fail_count,     \* main: fail_count
    not_found,      \* main: the relative paths reported "File not found"
    summary,        \* main: the counts the summary reported, <<>> before it
    run,            \* number of the current run of main
    start_fs,       \* history: fs when the current run started
    migrated,       \* history: sources whose migrate_file raised nothing
    raised,         \* history: sources whose migrate_file raised
    written,        \* history: destinations opened for writing, in order
    prev_fs,        \* history: fs when the previous run ended
    prev_raised     \* history: `raised` of the previous run

rvars == <<content, out, stage, applied>>
mvars == <<fs, pc, idx, success_count, fail_count, not_found, summary, run,
           start_fs, migrated, raised, written, prev_fs, prev_raised>>
vars == <<content, out, stage, applied, fs, pc, idx, success_count, fail_count,
          not_found, summary, run, start_fs, migrated, raised, written,
          prev_fs, prev_raised>>

(***************************************************************************)
(* Program constants.                                                      *)
(***************************************************************************)
OLD_PACKAGE == "com.CarSelling.Sell.the.old.Car"
NEW_PACKAGE == "com.carselling.oldcar"

\* 'SellTheOldCarApplication' and 'OldCarApplication' as token sequences
OldAppName == <<"SellThe", "OldCarApplication">>
NewAppName == <<"OldCarApplication">>

\* \s of the regular expressions
IsSpace(t) == t \in {" ", "\t", "\n"}

\* the class [a-zA-Z0-9_.] of the package regular expression: every token
\* of the alphabet except white space and punctuation
IsSuffixChar(t) == t \notin {" ", "\t", "\n", ";", "{", "\""}

(***************************************************************************)
(* Sequence helpers (Python str semantics on token sequences).             *)
(***************************************************************************)
\* s[i:] starts with pat
StartsWithAt(s, i, pat) ==
    /\ i + Len(pat) - 1 <= Len(s)
    /\ \A k \in 1..Len(pat) : s[i + k - 1] = pat[k]

\* pat in s
Contains(s, pat) == \E i \in 1..(Len(s) + 1) : StartsWithAt(s, i, pat)

\* \s+ : the index after the longest run of white space starting at j
RECURSIVE SkipSpace(_, _)
SkipSpace(s, j) ==
    IF j <= Len(s) /\ IsSpace(s[j]) THEN SkipSpace(s, j + 1) ELSE j

\* [a-zA-Z0-9_.]+ : the index after the longest run of class tokens from j
RECURSIVE SkipSuffix(_, _)
SkipSuffix(s, j) ==
    IF j <= Len(s) /\ IsSuffixChar(s[j]) THEN SkipSuffix(s, j + 1) ELSE j

\* str.replace(old, new): every non-overlapping occurrence, leftmost first
RECURSIVE ReplaceFrom(_, _, _, _)
ReplaceFrom(s, i, old, new) ==
    IF i > Len(s) THEN <<>>
    ELSE IF StartsWithAt(s, i, old)
         THEN new \o ReplaceFrom(s, i + Len(old), old, new)
         ELSE <<s[i]>> \o ReplaceFrom(s, i + 1, old, new)

\* replaces the first occurrence only (str.replace(old, new, 1))
ReplaceFirst(s, old, new) ==
    IF Contains(s, old)
    THEN LET i == CHOOSE k \in 1..Len(s) :
                      /\ StartsWithAt(s, k, old)
                      /\ \A h \in 1..(k - 1) : ~StartsWithAt(s, h, old)
         IN  SubSeq(s, 1, i - 1) \o new \o SubSeq(s, i + Len(old), Len(s))
    ELSE s

Replace(s, old, new) == ReplaceFrom(s, 1, old, new)

(***************************************************************************)
(* update_package_and_imports, step by step.                               *)
(***************************************************************************)
\* r'package\s+com\.CarSelling\.Sell\.the\.old\.Car(\.[a-zA-Z0-9_.]+)?;'
\* matched at position i: [end |-> index of the ';', group |-> group(1)],
\* end = 0 when there is no match at i.  The greedy class run either ends
\* at the ';' or the match fails: a shorter run is followed by a class
\* token, and an empty group by the '.'.
NoMatch == [end |-> 0, group |-> <<>>]

PackageMatchAt(s, i) ==
    IF ~(i <= Len(s) /\ s[i] = "package") THEN NoMatch
    ELSE LET k == SkipSpace(s, i + 1) IN
         IF ~(k > i + 1 /\ k <= Len(s) /\ s[k] = OLD_PACKAGE) THEN NoMatch
         ELSE IF k + 1 <= Len(s) /\ s[k + 1] = ";"
              THEN [end |-> k + 1, group |-> <<>>]
              ELSE IF k + 1 <= Len(s) /\ s[k + 1] = "."
                   THEN LET m == SkipSuffix(s, k + 2) IN
                        IF m > k + 2 /\ m <= Len(s) /\ s[m] = ";"
                        THEN [end |-> m, group |-> SubSeq(s, k + 1, m - 1)]
                        ELSE NoMatch
                   ELSE NoMatch

\* lambda m: f'package {NEW_PACKAGE}{m.group(1) if m.group(1) else ""};'
PackageReplNoSuffix(group) == <<"package", " ", NEW_PACKAGE, ";">>

PackageRepl(group) == <<"package", " ", NEW_PACKAGE>> \o group \o <<";">>

RECURSIVE SubPackageFrom(_, _)
SubPackageFrom(s, i) ==
    IF i > Len(s) THEN <<>>
    ELSE LET m == PackageMatchAt(s, i) IN
         IF m.end = 0
         THEN <<s[i]>> \o SubPackageFrom(s, i + 1)
         ELSE PackageRepl(m.group) \o SubPackageFrom(s, m.end + 1)

SubPackage(s) == SubPackageFrom(s, 1)

\* r'import\s+com\.CarSelling\.Sell\.the\.old\.Car' -> f'import {NEW_PACKAGE}'
\* the index of the OLD_PACKAGE token ending the match at i, 0 if none
ImportMatchAt(s, i) ==
    IF ~(i <= Len(s) /\ s[i] = "import") THEN 0
    ELSE LET k == SkipSpace(s, i + 1) IN
         IF k > i + 1 /\ k <= Len(s) /\ s[k] = OLD_PACKAGE THEN k ELSE 0

RECURSIVE SubImportsFrom(_, _)
SubImportsFrom(s, i) ==
    IF i > Len(s) THEN <<>>
    ELSE LET e == ImportMatchAt(s, i) IN
         IF e = 0
         THEN <<s[i]>> \o SubImportsFrom(s, i + 1)
         ELSE <<"import", " ", NEW_PACKAGE>> \o SubImportsFrom(s, e + 1)

SubImports(s) == SubImportsFrom(s, 1)

\* r'import\s+static\s+com\.CarSelling\.Sell\.the\.old\.Car'
\*     -> f'import static {NEW_PACKAGE}'
StaticImportMatchAt(s, i) ==
    IF ~(i <= Len(s) /\ s[i] = "import") THEN 0
    ELSE LET k == SkipSpace(s, i + 1) IN
         IF ~(k > i + 1 /\ k <= Len(s) /\ s[k] = "static") THEN 0
         ELSE LET n == SkipSpace(s, k + 1) IN
              IF n > k + 1 /\ n <= Len(s) /\ s[n] = OLD_PACKAGE THEN n ELSE 0

RECURSIVE SubStaticImportsFrom(_, _)
SubStaticImportsFrom(s, i) ==
    IF i > Len(s) THEN <<>>
    ELSE LET e == StaticImportMatchAt(s, i) IN
         IF e = 0
         THEN <<s[i]>> \o SubStaticImportsFrom(s, i + 1)
         ELSE <<"import", " ", "static", " ", NEW_PACKAGE>>
                  \o SubStaticImportsFrom(s, e + 1)

SubStaticImportsSkipped(s) == s

SubStaticImports(s) == SubStaticImportsFrom(s, 1)

\* a dict whose fourth rule writes the pattern of the second
replacementsChained ==
    << << <<NEW_PACKAGE, ".", "model", ".">>,
          <<NEW_PACKAGE, ".", "entity", ".">> >>,
       << <<NEW_PACKAGE, ".", "dto", ".", "UserDTO", ".">>,
          <<NEW_PACKAGE, ".", "dto", ".", "auth", ".">> >>,
       << <<NEW_PACKAGE, ".", "dto", ".", "CarDTO", ".">>,
          <<NEW_PACKAGE, ".", "dto", ".", "car", ".">> >>,
       << <<NEW_PACKAGE, ".", "security", ".", "AuthPayload">>,
          <<NEW_PACKAGE, ".", "dto", ".", "UserDTO", ".", "AuthPayload">> >>,
       << <<NEW_PACKAGE, ".", "security", ".", "jwt", ".", "JwtAuthResponse">>,
          <<NEW_PACKAGE, ".", "dto", ".", "auth", ".", "JwtAuthResponse">> >> >>

\* the dict `replacements`, in insertion order: <<old, new>>
replacements ==
    << << <<NEW_PACKAGE, ".", "model", ".">>,
          <<NEW_PACKAGE, ".", "entity", ".">> >>,
       << <<NEW_PACKAGE, ".", "dto", ".", "UserDTO", ".">>,
          <<NEW_PACKAGE, ".", "dto", ".", "auth", ".">> >>,
       << <<NEW_PACKAGE, ".", "dto", ".", "CarDTO", ".">>,
          <<NEW_PACKAGE, ".", "dto", ".", "car", ".">> >>,
       << <<NEW_PACKAGE, ".", "security", ".", "AuthPayload">>,
          <<NEW_PACKAGE, ".", "dto", ".", "auth", ".", "AuthPayload">> >>,
       << <<NEW_PACKAGE, ".", "security", ".", "jwt", ".", "JwtAuthResponse">>,
          <<NEW_PACKAGE, ".", "dto", ".", "auth", ".", "JwtAuthResponse">> >> >>

\* for old, new in replacements.items(): content = content.replace(old, new)
\* (the set constructor binds the value of the content to v)
RECURSIVE ApplyReplacementsFrom(_, _)
ApplyReplacementsFrom(s, r) ==
    IF r > Len(replacements) THEN s
    ELSE ApplyReplacementsFrom(
             CHOOSE t \in { Replace(v, replacements[r][1], replacements[r][2])
                                : v \in {s} } : TRUE,
             r + 1)

ApplyReplacements(s) == ApplyReplacementsFrom(s, 1)

\* if 'SellTheOldCarApplication' in content: content.replace(..., ...)
RenameApplicationFirstOnly(s) == ReplaceFirst(s, OldAppName, NewAppName)

RenameApplication(s) ==
    IF Contains(s, OldAppName) THEN Replace(s, OldAppName, NewAppName) ELSE s

\* each `content = ...` assigns a value: the set constructors bind the
\* value of every step to a name, so that each step is evaluated once
update_package_and_imports(s) ==
    CHOOSE r \in
        { RenameApplication(e) :
            e \in { ApplyReplacements(d) :
              d \in { SubStaticImports(c) :
                c \in { SubImports(b) :
                  b \in { SubPackage(a) : a \in {s} } } } } } : TRUE


(***************************************************************************)
(* Inputs of update_package_and_imports: contents of up to MaxStmts        *)
(* statements, each a head (package declaration, import, static import of  *)
(* the old package, or a qualified name of the new package) followed by a  *)
(* path, or one of a few other lines.                                      *)
(***************************************************************************)
MaxStmts == 2

Heads ==
    { <<"package", " ", OLD_PACKAGE>>,
      <<"import", " ", OLD_PACKAGE>>,
      <<"import", " ", "static", "\t", OLD_PACKAGE>>,
      <<NEW_PACKAGE>> }

Paths ==
    { <<>>,
      <<".", "model">>,
      <<".", "model", ".", "chat">>,
      <<".", "dto", ".", "UserDTO", ".", "LoginRequest">>,
      <<".", "dto", ".", "CarDTO", ".", "CarInput">>,
      <<".", "security", ".", "AuthPayload">>,
      <<".", "security", ".", "jwt", ".", "JwtAuthResponse">>,
      <<".", "security", ".", "jwt">> }

OtherLines ==
    { <<"public", " ", "class", " ", "SellThe", "OldCarApplication", " ", "{">>,
      <<"package", " ", OLD_PACKAGE, ".", ";">>,
      <<"package", "\n", " ", OLD_PACKAGE, ".", "model", " ", ";">>,
      <<"import", " ", OLD_PACKAGE, ".", "SellThe", "OldCarApplication", ";">>,
      <<"SellThe">> }

Statements ==
    { h \o p \o <<";">> : h \in Heads, p \in Paths } \cup OtherLines

RECURSIVE ContentsUpTo(_)
ContentsUpTo(n) ==
    IF n = 0 THEN { <<>> }
    ELSE LET shorter == ContentsUpTo(n - 1) IN
         shorter \cup { c \o st : c \in shorter, st \in Statements }

Inputs == ContentsUpTo(MaxStmts)

(***************************************************************************)
(* The rewrite alone: one call of update_package_and_imports.              *)
(***************************************************************************)
RewriteInit ==
    /\ content \in Inputs
    /\ out = <<>>
    /\ stage = "input"
    /\ applied = {}
    /\ fs = <<>>
    /\ pc = "idle"
    /\ idx = 0
    /\ success_count = 0
    /\ fail_count = 0
    /\ not_found = <<>>
    /\ summary = <<>>
    /\ run = 0
    /\ start_fs = <<>>
    /\ migrated = {}
    /\ raised = {}
    /\ written = <<>>
    /\ prev_fs = <<>>
    /\ prev_raised = {}

\* content = update_package_and_imports(content, new_path)
Transform ==
    /\ stage = "input"
    /\ out' = update_package_and_imports(content)
    /\ stage' = "output"
    /\ UNCHANGED <<content, applied>>
    /\ UNCHANGED mvars

RewriteNext == Transform

SpecRewrite == RewriteInit /\ [][RewriteNext]_vars

(***************************************************************************)
(* The literal rules alone: the body of the loop over `replacements`, one  *)
(* rule at a time and in every order, on contents put together from the    *)
(* pieces of the rules' patterns and results.                              *)
(***************************************************************************)
MaxFragments == 2

RuleFragments ==
    { replacements[r][1] : r \in 1..Len(replacements) } \cup
    { <<NEW_PACKAGE, ".">>,
      <<"model", ".">>,
      <<"dto", ".", "UserDTO", ".">>,
      <<"security", ".">>,
      <<"AuthPayload">>,
      <<"jwt", ".", "JwtAuthResponse">> }

RECURSIVE RuleContentsUpTo(_)
RuleContentsUpTo(n) ==
    IF n = 0 THEN { <<>> }
    ELSE LET shorter == RuleContentsUpTo(n - 1) IN
         shorter \cup { c \o f : c \in shorter, f \in RuleFragments }

RuleInputs == RuleContentsUpTo(MaxFragments)

RulesInit ==
    /\ content \in RuleInputs
    /\ out = content
    /\ stage = "rules"
    /\ applied = {}
    /\ fs = <<>>
    /\ pc = "idle"
    /\ idx = 0
    /\ success_count = 0
    /\ fail_count = 0
    /\ not_found = <<>>
    /\ summary = <<>>
    /\ run = 0
    /\ start_fs = <<>>
    /\ migrated = {}
    /\ raised = {}
    /\ written = <<>>
    /\ prev_fs = <<>>
    /\ prev_raised = {}

\* content = content.replace(old, new), for the r-th item of the dict
ApplyRule(r) ==
    /\ stage = "rules"
    /\ r \notin applied
    /\ out' = Replace(out, replacements[r][1], replacements[r][2])
    /\ applied' = applied \cup {r}
    /\ UNCHANGED <<content, stage>>
    /\ UNCHANGED mvars

RulesNext == \E r \in 1..Len(replacements) : ApplyRule(r)

SpecRules == RulesInit /\ [][RulesNext]_vars


(***************************************************************************)
(* The file system and the mapping table.  A path is <<root, relative      *)
(* path>>; the four roots are the directories OLD_SRC, NEW_SRC, OLD_TEST   *)
(* and NEW_TEST.                                                           *)
(***************************************************************************)
\* FILE_MAPPINGS.items(), in insertion order: <<old_rel_path, new_rel_path>>
FILE_MAPPINGS ==
    <<
       <<"SellTheOldCarApplication.java", "OldCarApplication.java">>,
       <<"config/CorsConfig.java", "config/CorsConfig.java">>,
       <<"config/ScheduledTasks.java", "config/ScheduledTasks.java">>,
       <<"config/WebSocketConfig.java", "config/WebSocketConfig.java">>,
       <<"config/WebSocketEventListener.java", "config/WebSocketEventListener.java">>,
       <<"controller/AuthController.java", "controller/auth/AuthController.java">>,
       <<"controller/Car/CarController.java", "controller/car/CarController.java">>,
       <<"controller/Car/SecureCarController.java", "controller/car/SecureCarController.java">>,
       <<"controller/CarManagementController.java", "controller/car/CarManagementController.java">>,
       <<"controller/User/UserController.java", "controller/user/UserController.java">>,
       <<"controller/SellerController.java", "controller/dealer/SellerController.java">>,
       <<"controller/chat/ChatController.java", "controller/chat/ChatController.java">>,
       <<"controller/chat/ChatRestController.java", "controller/chat/ChatRestController.java">>,
       <<"controller/chat/ChatWebSocketController.java", "controller/chat/ChatWebSocketController.java">>,
       <<"security/AuthPayload.java", "dto/auth/AuthPayload.java">>,
       <<"security/jwt/JwtAuthResponse.java", "dto/auth/JwtAuthResponse.java">>,
       <<"dto/UserDTO/LoginRequest.java", "dto/auth/LoginRequest.java">>,
       <<"dto/UserDTO/LoginInput.java", "dto/auth/LoginInput.java">>,
       <<"dto/UserDTO/RegisterRequest.java", "dto/auth/RegisterRequest.java">>,
       <<"dto/UserDTO/ForgotPasswordRequest.java", "dto/auth/ForgotPasswordRequest.java">>,
       <<"dto/UserDTO/ResetPasswordRequest.java", "dto/auth/ResetPasswordRequest.java">>,
       <<"dto/UserDTO/RefreshTokenRequest.java", "dto/auth/RefreshTokenRequest.java">>,
       <<"dto/UserDTO/UpdateUserInput.java", "dto/user/UpdateUserInput.java">>,
       <<"dto/UserPage.java", "dto/user/UserPage.java">>,
       <<"dto/CarDTO/CarInput.java", "dto/car/CarInput.java">>,
       <<"dto/CarDTO/UpdateCarInput.java", "dto/car/UpdateCarInput.java">>,
       <<"dto/CarDTO/CarResponseDTO.java", "dto/car/CarResponseDTO.java">>,
       <<"model/User.java", "entity/User.java">>,
       <<"model/Car.java", "entity/Car.java">>,
       <<"model/Role.java", "entity/Role.java">>,
       <<"model/Permission.java", "entity/Permission.java">>,
       <<"model/SellerType.java", "entity/SellerType.java">>,
       <<"model/OtpToken.java", "entity/OtpToken.java">>,
       <<"model/Chat.java", "entity/chat/Chat.java">>,
       <<"model/ChatParticipant.java", "entity/chat/ChatParticipant.java">>,
       <<"model/Message.java", "entity/chat/Message.java">>,
       <<"model/MessageStatus.java", "entity/chat/MessageStatus.java">>,
       <<"model/UserStatus.java", "entity/chat/UserStatus.java">>,
       <<"model/chat/Chat.java", "entity/chat/Chat.java">>,
       <<"model/chat/ChatParticipant.java", "entity/chat/ChatParticipant.java">>,
       <<"model/chat/Message.java", "entity/chat/Message.java">>,
       <<"model/chat/MessageStatus.java", "entity/chat/MessageStatus.java">>,
       <<"model/chat/UserStatus.java", "entity/chat/UserStatus.java">>,
       <<"exception/GlobalExceptionHandler.java", "exception/GlobalExceptionHandler.java">>,
       <<"exception/ResourceNotFoundException.java", "exception/ResourceNotFoundException.java">>,
       <<"exception/ResourceAlreadyExistsException.java", "exception/ResourceAlreadyExistsException.java">>,
       <<"exception/UnauthorizedActionException.java", "exception/UnauthorizedActionException.java">>,
       <<"repository/UserRepository.java", "repository/UserRepository.java">>,
       <<"repository/CarRepository.java", "repository/CarRepository.java">>,
       <<"repository/OtpTokenRepository.java", "repository/OtpTokenRepository.java">>,
       <<"repository/ChatRepository.java", "repository/ChatRepository.java">>,
       <<"repository/ChatParticipantRepository.java", "repository/ChatParticipantRepository.java">>,
       <<"repository/MessageRepository.java", "repository/MessageRepository.java">>,
       <<"repository/MessageStatusRepository.java", "repository/MessageStatusRepository.java">>,
       <<"repository/UserStatusRepository.java", "repository/UserStatusRepository.java">>,
       <<"repository/chat/ChatRepository.java", "repository/chat/ChatRepository.java">>,
       <<"repository/chat/ChatParticipantRepository.java", "repository/chat/ChatParticipantRepository.java">>,
       <<"repository/chat/MessageRepository.java", "repository/chat/MessageRepository.java">>,
       <<"repository/chat/MessageStatusRepository.java", "repository/chat/MessageStatusRepository.java">>,
       <<"repository/chat/UserStatusRepository.java", "repository/chat/UserStatusRepository.java">>,
       <<"security/SecurityConfig.java", "security/SecurityConfig.java">>,
       <<"security/CustomUserDetailsService.java", "security/CustomUserDetailsService.java">>,
       <<"security/UserPrincipal.java", "security/UserPrincipal.java">>,
       <<"security/jwt/JwtAuthenticationEntryPoint.java", "security/jwt/JwtAuthenticationEntryPoint.java">>,
       <<"security/jwt/JwtAuthenticationFilter.java", "security/jwt/JwtAuthenticationFilter.java">>,
       <<"security/jwt/JwtTokenProvider.java", "security/jwt/JwtTokenProvider.java">>,
       <<"service/AuthService.java", "service/AuthService.java">>,
       <<"service/AuthenticationService.java", "service/AuthenticationService.java">>,
       <<"service/UserService.java", "service/UserService.java">>,
       <<"service/CarService.java", "service/CarService.java">>,
       <<"service/OtpService.java", "service/OtpService.java">>,
       <<"service/CarServiceImpl.java", "service/impl/CarServiceImpl.java">>,
       <<"service/chat/ChatService.java", "service/chat/ChatService.java">>,
       <<"service/chat/ChatSecurityService.java", "service/chat/ChatSecurityService.java">>,
       <<"service/chat/MessageService.java", "service/chat/MessageService.java">>,
       <<"service/chat/MessageDeliveryService.java", "service/chat/MessageDeliveryService.java">>,
       <<"service/chat/RateLimitingService.java", "service/chat/RateLimitingService.java">>,
       <<"service/chat/UserStatusService.java", "service/chat/UserStatusService.java">>
    >>

Entries == 1..Len(FILE_MAPPINGS)

\* old_file = OLD_SRC / old_rel_path
OldFile(i) == <<"OLD_SRC", FILE_MAPPINGS[i][1]>>

\* new_file = NEW_SRC / new_rel_path
NewFileAtOldName(i) == <<"NEW_SRC", FILE_MAPPINGS[i][1]>>

\* new_file = old_file: the file is rewritten in place
NewFileInPlace(i) == <<"OLD_SRC", FILE_MAPPINGS[i][1]>>

NewFile(i) == <<"NEW_SRC", FILE_MAPPINGS[i][2]>>

\* test_file = OLD_TEST / "SellTheOldCarApplicationTests.java"
TestFile == <<"OLD_TEST", "SellTheOldCarApplicationTests.java">>

\* new_test_file = NEW_TEST / "OldCarApplicationTests.java"
NewTestFileInSrc == <<"NEW_SRC", "OldCarApplication.java">>

NewTestFile == <<"NEW_TEST", "OldCarApplicationTests.java">>

\* old_file.exists()
Exists(files, path) == path \in DOMAIN files

(***************************************************************************)
(* The directories the four roots name, as sequences of path components    *)
(* (pathlib's `/`).  BASE_DIR is kept as one component: it is the same     *)
(* prefix of all four.                                                     *)
(***************************************************************************)
BASE_DIR == <<"D:\\Startup\\Car Frontend Backend\\Sell-the-old-Car">>

OLD_SRC ==
    BASE_DIR \o <<"src", "main", "java", "com", "CarSelling", "Sell", "the",
                  "old", "Car">>
NEW_SRC == BASE_DIR \o <<"src", "main", "java", "com", "carselling", "oldcar">>
OLD_TEST ==
    BASE_DIR \o <<"src", "test", "java", "com", "CarSelling", "Sell", "the",
                  "old", "Car">>
NEW_TEST == BASE_DIR \o <<"src", "test", "java", "com", "carselling", "oldcar">>

\* the directory a root name stands for
RootOf(name) ==
    CASE name = "OLD_SRC" -> OLD_SRC
      [] name = "NEW_SRC" -> NEW_SRC
      [] name = "OLD_TEST" -> OLD_TEST
      [] name = "NEW_TEST" -> NEW_TEST

\* a component as a file system that ignores case sees it (the D: drive of
\* BASE_DIR): the components of the roots that hold capitals, lowered
Lower(c) ==
    CASE c = "CarSelling" -> "carselling"
      [] c = "Sell" -> "sell"
      [] c = "Car" -> "car"
      [] c = BASE_DIR[1] -> "d:\\startup\\car frontend backend\\sell-the-old-car"
      [] OTHER -> c

\* the directory of a root as the file system names it, with or without case
DirectoryOf(name, ignore_case) ==
    IF ignore_case
    THEN [ k \in 1..Len(RootOf(name)) |-> Lower(RootOf(name)[k]) ]
    ELSE RootOf(name)

\* d1 is d2 or lies under d2
IsUnder(d1, d2) ==
    /\ Len(d2) <= Len(d1)
    /\ \A k \in 1..Len(d2) : d1[k] = d2[k]

(***************************************************************************)
(* The source files a run may find, and their contents.  Every other       *)
(* source of the table is missing.                                         *)
(***************************************************************************)
SourceTexts ==
    ( <<"OLD_SRC", "SellTheOldCarApplication.java">> :>
          <<"package", " ", OLD_PACKAGE, ";", "\n",
            "public", " ", "class", " ", "SellThe", "OldCarApplication",
            " ", "{">> )
    @@
    ( <<"OLD_SRC", "model/Chat.java">> :>
          <<"package", " ", OLD_PACKAGE, ".", "model", ";", "\n",
            "import", " ", OLD_PACKAGE, ".", "dto", ".", "UserDTO", ".",
            "LoginRequest", ";">> )
    @@
    ( <<"OLD_SRC", "model/chat/Chat.java">> :>
          <<"package", " ", OLD_PACKAGE, ".", "model", ".", "chat", ";">> )
    @@
    ( <<"OLD_TEST", "SellTheOldCarApplicationTests.java">> :>
          <<"package", " ", OLD_PACKAGE, ";", "\n",
            "class", " ", "SellThe", "OldCarApplication", "Tests", " ",
            "{">> )

\* the file systems a first run may start from
StartFileSystems ==
    { [ p \in S |-> SourceTexts[p] ] : S \in SUBSET (DOMAIN SourceTexts) }

\* number of runs of main in sequence
MaxRuns == 2

(***************************************************************************)
(* migrate_file(old_path, new_path).  `failure` is where an exception is   *)
(* raised: "none", "read" (open or read of old_path), "mkdir", "open"      *)
(* (open of new_path for writing) or "write" (after the open truncated or  *)
(* created new_path; the file is left with the empty prefix of the         *)
(* content).  The result is the file system left behind, what the call     *)
(* returns ("True", "False", or "raise" when the exception leaves the      *)
(* call) and whether new_path was opened for writing.                      *)
(***************************************************************************)
Failures == {"none", "read", "mkdir", "open", "write"}

\* fs with `path` holding `text`
WriteFile(files, path, text) ==
    [ p \in DOMAIN files \cup {path} |-> IF p = path THEN text ELSE files[p] ]

\* open(new_path, 'a') in place of open(new_path, 'w')
MigrateFileAppending(files, old_path, new_path, failure) ==
    IF failure \in {"read", "mkdir", "open"}
    THEN [files |-> files, returns |-> "False", opened |-> FALSE]
    ELSE IF failure = "write"
    THEN [files |-> WriteFile(files, new_path,
                              IF Exists(files, new_path)
                              THEN files[new_path] ELSE <<>>),
          returns |-> "False", opened |-> TRUE]
    ELSE [files |-> WriteFile(files, new_path,
                              (IF Exists(files, new_path)
                               THEN files[new_path] ELSE <<>>)
                                  \o update_package_and_imports(files[old_path])),
          returns |-> "True", opened |-> TRUE]

\* no try/except around the body
MigrateFileUncaught(files, old_path, new_path, failure) ==
    IF failure \in {"read", "mkdir", "open"}
    THEN [files |-> files, returns |-> "raise", opened |-> FALSE]
    ELSE IF failure = "write"
    THEN [files |-> WriteFile(files, new_path, <<>>),
          returns |-> "raise", opened |-> TRUE]
    ELSE [files |-> WriteFile(files, new_path,
                              update_package_and_imports(files[old_path])),
          returns |-> "True", opened |-> TRUE]

\* the except clause returns True as well
MigrateFileAlwaysTrue(files, old_path, new_path, failure) ==
    IF failure \in {"read", "mkdir", "open"}
    THEN [files |-> files, returns |-> "True", opened |-> FALSE]
    ELSE IF failure = "write"
    THEN [files |-> WriteFile(files, new_path, <<>>),
          returns |-> "True", opened |-> TRUE]
    ELSE [files |-> WriteFile(files, new_path,
                              update_package_and_imports(files[old_path])),
          returns |-> "True", opened |-> TRUE]

MigrateFile(files, old_path, new_path, failure) ==
    IF failure \in {"read", "mkdir", "open"}
    THEN [files |-> files, returns |-> "False", opened |-> FALSE]
    ELSE IF failure = "write"
    THEN [files |-> WriteFile(files, new_path, <<>>),
          returns |-> "False", opened |-> TRUE]
    ELSE [files |-> WriteFile(files, new_path,
                              update_package_and_imports(files[old_path])),
          returns |-> "True", opened |-> TRUE]

(***************************************************************************)
(* main.                                                                   *)
(***************************************************************************)
Init ==
    /\ content = <<>>
    /\ out = <<>>
    /\ stage = "idle"
    /\ applied = {}
    /\ fs \in StartFileSystems
    /\ pc = "loop"
    /\ idx = 1
    /\ success_count = 0
    /\ fail_count = 0
    /\ not_found = <<>>
    /\ summary = <<>>
    /\ run = 1
    /\ start_fs = fs
    /\ migrated = {}
    /\ raised = {}
    /\ written = <<>>
    /\ prev_fs = <<>>
    /\ prev_raised = {}

\* if migrate_file(...): success_count += 1 else: fail_count += 1
\* (an exception leaving migrate_file would leave main as well)
Migrate(old_path, new_path, after) ==
    \E failure \in Failures :
        LET r == MigrateFile(fs, old_path, new_path, failure) IN
        /\ fs' = r.files
        /\ written' = IF r.opened THEN Append(written, new_path) ELSE written
        /\ migrated' = IF failure = "none"
                       THEN migrated \cup {old_path} ELSE migrated
        /\ raised' = IF failure = "none" THEN raised ELSE raised \cup {old_path}
        /\ success_count' = IF r.returns = "True"
                            THEN success_count + 1 ELSE success_count
        /\ fail_count' = IF r.returns = "False"
                         THEN fail_count + 1 ELSE fail_count
        /\ pc' = IF r.returns = "raise" THEN "aborted" ELSE after

\* the else branch of the loop body counts the missing file as a failure
EntryNotFoundCounted ==
    /\ not_found' = Append(not_found, FILE_MAPPINGS[idx][1])
    /\ fail_count' = fail_count + 1
    /\ pc' = IF idx = Len(FILE_MAPPINGS) THEN "test" ELSE "loop"
    /\ UNCHANGED <<fs, success_count, migrated, raised, written>>

\* else: print(f"File not found: {old_rel_path}")
EntryNotFound ==
    /\ not_found' = Append(not_found, FILE_MAPPINGS[idx][1])
    /\ pc' = IF idx = Len(FILE_MAPPINGS) THEN "test" ELSE "loop"
    /\ UNCHANGED <<fs, success_count, fail_count, migrated, raised, written>>

\* one iteration of `for old_rel_path, new_rel_path in FILE_MAPPINGS.items()`
ProcessEntry ==
    /\ pc = "loop"
    /\ idx' = idx + 1
    /\ IF Exists(fs, OldFile(idx))
       THEN /\ Migrate(OldFile(idx), NewFile(idx),
                       IF idx = Len(FILE_MAPPINGS) THEN "test" ELSE "loop")
            /\ UNCHANGED not_found
       ELSE EntryNotFound
    /\ UNCHANGED <<content, out, stage, applied, summary, run, start_fs, prev_fs,
                   prev_raised>>

\* if test_file.exists(): migrate_file(test_file, new_test_file) ...
MigrateTests ==
    /\ pc = "test"
    /\ IF Exists(fs, TestFile)
       THEN Migrate(TestFile, NewTestFile, "summary")
       ELSE /\ pc' = "summary"
            /\ UNCHANGED <<fs, success_count, fail_count, migrated, raised,
                           written>>
    /\ UNCHANGED <<content, out, stage, applied, idx, not_found, summary, run,
                   start_fs, prev_fs, prev_raised>>

\* print(f"Successfully migrated: {success_count} files") ...
Summarise ==
    /\ pc = "summary"
    /\ summary' = <<success_count, fail_count>>
    /\ pc' = "done"
    /\ UNCHANGED <<content, out, stage, applied, fs, idx, success_count, fail_count,
                   not_found, run, start_fs, migrated, raised, written,
                   prev_fs, prev_raised>>

\* the script is run again on what the previous run left
RunAgain ==
    /\ pc = "done"
    /\ run < MaxRuns
    /\ run' = run + 1
    /\ pc' = "loop"
    /\ idx' = 1
    /\ success_count' = 0
    /\ fail_count' = 0
    /\ not_found' = <<>>
    /\ summary' = <<>>
    /\ start_fs' = fs
    /\ migrated' = {}
    /\ raised' = {}
    /\ written' = <<>>
    /\ prev_fs' = fs
    /\ prev_raised' = raised
    /\ UNCHANGED <<content, out, stage, applied, fs>>

Next == ProcessEntry \/ MigrateTests \/ Summarise \/ RunAgain

Spec == Init /\ [][Next]_vars

\* one run of main; it runs to its end once started: no step waits on
\* anything, so every enabled step is eventually taken
NextOfOneRun == ProcessEntry \/ MigrateTests \/ Summarise

FairSpec == Init /\ [][NextOfOneRun]_vars /\ WF_vars(NextOfOneRun)

(***************************************************************************)
(* Properties of update_package_and_imports (checked under SpecRewrite).   *)
(***************************************************************************)
\* number of occurrences of pat in s
Count(s, pat) == Cardinality({ i \in 1..Len(s) : StartsWithAt(s, i, pat) })

\* the n tokens of s after position k
Following(s, k, n) == [ j \in 1..n |-> s[k + j] ]

\* tokens a .. b of s are a non-empty run of white space
IsSpaceRun(s, a, b) ==
    /\ a <= b
    /\ \A j \in a..b : IsSpace(s[j])

\* a package suffix as the claims describe it: nothing, or a dot followed
\* by letters, digits, '_' and '.'
IsPackageSuffix(suf) ==
    \/ suf = <<>>
    \/ /\ Len(suf) >= 2
       /\ suf[1] = "."
       /\ \A j \in 1..Len(suf) : IsSuffixChar(suf[j])

\* `package OLD_PACKAGE` ends at k: the keyword, white space, the old name
PackageHeadEndsAt(s, k) ==
    /\ s[k] = OLD_PACKAGE
    /\ \E i \in 1..(k - 2) : s[i] = "package" /\ IsSpaceRun(s, i + 1, k - 1)

\* `import OLD_PACKAGE` ends at k
ImportHeadEndsAt(s, k) ==
    /\ s[k] = OLD_PACKAGE
    /\ \E i \in 1..(k - 2) : s[i] = "import" /\ IsSpaceRun(s, i + 1, k - 1)

\* `import static OLD_PACKAGE` ends at k
StaticImportHeadEndsAt(s, k) ==
    /\ s[k] = OLD_PACKAGE
    /\ \E i \in 1..(k - 4), m \in 3..(k - 2) :
           /\ s[i] = "import"
           /\ IsSpaceRun(s, i + 1, m - 1)
           /\ s[m] = "static"
           /\ IsSpaceRun(s, m + 1, k - 1)

\* the n tokens after k are a package suffix closed by ';'
SuffixClosedAt(s, k, n) ==
    /\ k + n + 1 <= Len(s)
    /\ s[k + n + 1] = ";"
    /\ IsPackageSuffix(Following(s, k, n))

\* the n tokens after k are the rest of an import path closed by ';'
PathClosedAt(s, k, n) ==
    /\ k + n + 1 <= Len(s)
    /\ s[k + n + 1] = ";"
    /\ \A j \in 1..n : IsSuffixChar(s[k + j])

\* the qualified name NEW_PACKAGE<path> holds none of the five literal
\* patterns and the path does not hold SellTheOldCarApplication
NoRenameIn(path) ==
    /\ \A r \in 1..Len(replacements) :
           ~Contains(<<NEW_PACKAGE>> \o path, replacements[r][1])
    /\ ~Contains(path, OldAppName)

Positions == 1..Len(content)
Lengths == 0..Len(content)

NewPackageDecl(suf) == <<"package", " ", NEW_PACKAGE>> \o suf \o <<";">>
NewImport(rest) == <<"import", " ", NEW_PACKAGE>> \o rest \o <<";">>
NewStaticImport(rest) ==
    <<"import", " ", "static", " ", NEW_PACKAGE>> \o rest \o <<";">>

\* C1: a content with `package OLD_PACKAGE.model;` and
\* `import OLD_PACKAGE.dto.UserDTO.LoginRequest;` is rewritten to a content
\* with `package NEW_PACKAGE.entity;` and
\* `import NEW_PACKAGE.dto.auth.LoginRequest;`.
C1_EndToEndScenario ==
    ( /\ stage = "output"
      /\ Contains(content, <<"package", " ", OLD_PACKAGE, ".", "model", ";">>)
      /\ Contains(content, <<"import", " ", OLD_PACKAGE, ".", "dto", ".",
                             "UserDTO", ".", "LoginRequest", ";">>) )
    => /\ Contains(out, <<"package", " ", NEW_PACKAGE, ".", "entity", ";">>)
       /\ Contains(out, <<"import", " ", NEW_PACKAGE, ".", "dto", ".",
                          "auth", ".", "LoginRequest", ";">>)

\* C2 (as claimed): every declaration `package OLD_PACKAGE[.suffix];` of the
\* input appears in the output as `package NEW_PACKAGE[.suffix];` with
\* exactly the same suffix.
C2_SuffixAlwaysKept ==
    stage = "output" =>
        \A k \in Positions : PackageHeadEndsAt(content, k) =>
            \A n \in Lengths : SuffixClosedAt(content, k, n) =>
                Contains(out, NewPackageDecl(Following(content, k, n)))

\* C2 (amended): every declaration `package OLD_PACKAGE[.suffix];` of the
\* input appears in the output as `package NEW_PACKAGE[.suffix];` with the
\* same suffix, provided NEW_PACKAGE.suffix holds none of the five literal
\* patterns and the suffix does not hold SellTheOldCarApplication.
C2_SuffixKeptUnlessRenamed ==
    stage = "output" =>
        \A k \in Positions : PackageHeadEndsAt(content, k) =>
            \A n \in Lengths :
                ( /\ SuffixClosedAt(content, k, n)
                  /\ NoRenameIn(Following(content, k, n)) ) =>
                    Contains(out, NewPackageDecl(Following(content, k, n)))

\* a declaration with a sub-package suffix that no rule renames was rewritten
C2_Witness ==
    /\ stage = "output"
    /\ \E k \in Positions, n \in Lengths :
           /\ n >= 2
           /\ PackageHeadEndsAt(content, k)
           /\ SuffixClosedAt(content, k, n)
           /\ NoRenameIn(Following(content, k, n))
           /\ Contains(out, NewPackageDecl(Following(content, k, n)))

\* C3 (as claimed): every statement `import [static] OLD_PACKAGE<rest>;` of
\* the input appears in the output as `import [static] NEW_PACKAGE<rest>;`
\* with the rest of the import path unchanged.
C3_ImportRestAlwaysKept ==
    stage = "output" =>
        \A k \in Positions :
            /\ ImportHeadEndsAt(content, k) =>
                   \A n \in Lengths : PathClosedAt(content, k, n) =>
                       Contains(out, NewImport(Following(content, k, n)))
            /\ StaticImportHeadEndsAt(content, k) =>
                   \A n \in Lengths : PathClosedAt(content, k, n) =>
                       Contains(out, NewStaticImport(Following(content, k, n)))

\* C3 (amended): every statement `import [static] OLD_PACKAGE<rest>;` of the
\* input appears in the output as `import [static] NEW_PACKAGE<rest>;` with
\* the rest unchanged, provided NEW_PACKAGE<rest> holds none of the five
\* literal patterns and the rest does not hold SellTheOldCarApplication.
C3_ImportRestKeptUnlessRenamed ==
    stage = "output" =>
        \A k \in Positions :
            /\ ImportHeadEndsAt(content, k) =>
                   \A n \in Lengths :
                       ( /\ PathClosedAt(content, k, n)
                         /\ NoRenameIn(Following(content, k, n)) ) =>
                           Contains(out, NewImport(Following(content, k, n)))
            /\ StaticImportHeadEndsAt(content, k) =>
                   \A n \in Lengths :
                       ( /\ PathClosedAt(content, k, n)
                         /\ NoRenameIn(Following(content, k, n)) ) =>
                           Contains(out,
                                    NewStaticImport(Following(content, k, n)))

\* an import and a static import, both with a path no rule renames, were
\* rewritten in one content
C3_Witness ==
    /\ stage = "output"
    /\ \E k \in Positions, n \in Lengths :
           /\ n >= 2
           /\ ImportHeadEndsAt(content, k)
           /\ PathClosedAt(content, k, n)
           /\ NoRenameIn(Following(content, k, n))
           /\ Contains(out, NewImport(Following(content, k, n)))
    /\ \E k \in Positions, n \in Lengths :
           /\ n >= 2
           /\ StaticImportHeadEndsAt(content, k)
           /\ PathClosedAt(content, k, n)
           /\ NoRenameIn(Following(content, k, n))
           /\ Contains(out, NewStaticImport(Following(content, k, n)))

\* C6: every occurrence of SellTheOldCarApplication in the content is
\* replaced by OldCarApplication: each occurrence loses its "SellThe" and
\* keeps its "OldCarApplication", no other token of the name is touched, and
\* `public class SellTheOldCarApplication` becomes
\* `public class OldCarApplication`.
C6_EveryOccurrenceRenamed ==
    stage = "output" =>
        /\ Count(out, <<"SellThe">>)
               = Count(content, <<"SellThe">>) - Count(content, OldAppName)
        /\ Count(out, NewAppName) = Count(content, NewAppName)
        /\ Contains(content, <<"public", " ", "class", " ">> \o OldAppName)
               => Contains(out, <<"public", " ", "class", " ">> \o NewAppName)

\* a content with the type declaration and a second reference was rewritten
C6_Witness ==
    /\ stage = "output"
    /\ Count(content, OldAppName) >= 2
    /\ Contains(content, <<"public", " ", "class", " ">> \o OldAppName)
    /\ ~Contains(out, OldAppName)


(***************************************************************************)
(* Properties of main (checked under Spec, termination under FairSpec).    *)
(***************************************************************************)
\* the destination the table (or the test migration) gives a source path
DestinationOf(i) == <<"NEW_SRC", FILE_MAPPINGS[i][2]>>
TestDestination == <<"NEW_TEST", "OldCarApplicationTests.java">>

\* the sources, among those of `sources`, that are to be written to d
SourcesOf(d, sources) ==
    { p \in sources :
        \/ \E i \in Entries :
               p = <<"OLD_SRC", FILE_MAPPINGS[i][1]>> /\ DestinationOf(i) = d
        \/ /\ p = <<"OLD_TEST", "SellTheOldCarApplicationTests.java">>
           /\ d = TestDestination }

\* every path that is or was a destination file
DestinationFiles ==
    { d \in DOMAIN fs \cup DOMAIN prev_fs : d[1] \in {"NEW_SRC", "NEW_TEST"} }

C5_WrittenOnce ==
    \A k \in 1..Len(written) : Count(written, <<written[k]>>) <= 1

\* C5 (amended): within one run a destination path is written at most once
\* for each existing source that is mapped to it: at most twice for the five
\* entity/chat destinations, at most once for every other destination.
C5_WrittenOncePerSource ==
    \A k \in 1..Len(written) :
        Count(written, <<written[k]>>)
            <= Cardinality(SourcesOf(written[k], DOMAIN start_fs))

\* a run wrote entity/chat/Chat.java twice and another destination once
C5_Witness ==
    /\ pc = "done"
    /\ Count(written, << <<"NEW_SRC", "entity/chat/Chat.java">> >>) = 2
    /\ Count(written, << <<"NEW_SRC", "OldCarApplication.java">> >>) = 1

C8_MissingEntrySkipped ==
    [][ ( /\ pc = "loop"
          /\ ~Exists(fs, <<"OLD_SRC", FILE_MAPPINGS[idx][1]>>) ) =>
            /\ success_count' = success_count
            /\ fail_count' = fail_count
            /\ fs' = fs
            /\ written' = written
            /\ not_found' = Append(not_found, FILE_MAPPINGS[idx][1])
            /\ idx' = idx + 1
            /\ pc' = IF idx = Len(FILE_MAPPINGS) THEN "test" ELSE "loop" ]_vars

\* the first entry was missing and a later entry was migrated
C8_Witness ==
    /\ pc = "done"
    /\ Len(not_found) >= 1
    /\ not_found[1] = "SellTheOldCarApplication.java"
    /\ <<"OLD_SRC", "model/Chat.java">> \in migrated
    /\ success_count >= 1
    /\ fail_count = 0

\* C9: every exception of a migration is caught: a source whose migration
\* raised adds one to fail_count and nothing to success_count, a source
\* migrated without exception adds one to success_count and nothing to
\* fail_count, and the loop goes on: each iteration adds exactly one
\* outcome.
C9_OutcomeCounted ==
    /\ success_count = Cardinality(migrated)
    /\ fail_count = Cardinality(raised)
    /\ migrated \cap raised = {}
    /\ pc # "aborted"
    /\ pc = "loop" =>
           Cardinality(migrated) + Cardinality(raised) + Len(not_found)
               = idx - 1

\* the first entry failed and a later entry was migrated
C9_Witness ==
    /\ pc = "done"
    /\ <<"OLD_SRC", "SellTheOldCarApplication.java">> \in raised
    /\ <<"OLD_SRC", "model/Chat.java">> \in migrated
    /\ summary = <<success_count, fail_count>>

\* C10: a run of main visits the entries of FILE_MAPPINGS in order, each
\* once, then the test file, then the summary, and always reaches the
\* summary, whichever sources are missing and whichever migrations fail.
C10_RunReachesSummary ==
    /\ [](pc = "loop" => <>(pc = "done"))
    /\ [][ pc = "loop" =>
               /\ idx' = idx + 1
               /\ pc' = IF idx = Len(FILE_MAPPINGS) THEN "test" ELSE "loop"
         ]_vars
    /\ [][ pc = "test" => pc' = "summary" ]_vars
    /\ [][ pc = "summary" =>
               pc' = "done" /\ summary' = <<success_count, fail_count>> ]_vars

\* a run reached the summary with a missing source and a failed migration
C10_Witness ==
    /\ pc = "done"
    /\ Len(summary) = 2
    /\ Len(not_found) >= 1
    /\ raised # {}
    /\ migrated # {}


\* C11: a run of main leaves every file under the old roots as it was: each
\* source file that existed when the run started still exists with the same
\* content, no file appears under the old roots, and no destination the run
\* wrote lies in a directory that is, or lies under, an old root (so it
\* coincides with no old source path), whether or not the file system
\* ignores case.
C11_OldFilesUntouched ==
    /\ \A p \in DOMAIN start_fs :
           p[1] \in {"OLD_SRC", "OLD_TEST"} =>
               Exists(fs, p) /\ fs[p] = start_fs[p]
    /\ \A p \in DOMAIN fs :
           p[1] \in {"OLD_SRC", "OLD_TEST"} => Exists(start_fs, p)
    /\ \A k \in 1..Len(written) :
           \A old_root \in {"OLD_SRC", "OLD_TEST"}, ignore_case \in BOOLEAN :
               ~IsUnder(DirectoryOf(written[k][1], ignore_case),
                        DirectoryOf(old_root, ignore_case))

\* a run ended after it migrated three sources, the sources still in place
C11_Witness ==
    /\ pc = "done"
    /\ Len(written) >= 3
    /\ <<"OLD_SRC", "SellTheOldCarApplication.java">> \in migrated
    /\ <<"OLD_TEST", "SellTheOldCarApplicationTests.java">> \in migrated
    /\ Exists(fs, <<"NEW_SRC", "OldCarApplication.java">>)
    /\ fs[<<"OLD_SRC", "SellTheOldCarApplication.java">>]
           = SourceTexts[<<"OLD_SRC", "SellTheOldCarApplication.java">>]


\* the occurrences of two patterns do not share a position of s
NoOverlap(s, old1, old2) ==
    \A i \in 1..Len(s) :
        StartsWithAt(s, i, old1) =>
            \A j \in 1..Len(s) :
                StartsWithAt(s, j, old2) =>
                    \/ i + Len(old1) <= j
                    \/ j + Len(old2) <= i

\* C12: the five literal rules give one result in every order: once all
\* five are applied, in whichever order, the content is what the loop in
\* dictionary order makes of the input; and on every content met on the
\* way, applying a rule leaves the number of matches of every other rule
\* as it was, any two rules applied one after the other commute, and the
\* matches of two different rules never overlap.
C12_RuleOrderIrrelevant ==
    stage = "rules" =>
        /\ applied = 1..Len(replacements) => out = ApplyReplacements(content)
        /\ \A r \in 1..Len(replacements) :
               LET after == Replace(out, replacements[r][1], replacements[r][2])
               IN  \A q \in 1..Len(replacements) \ {r} :
                       /\ Count(after, replacements[q][1])
                              = Count(out, replacements[q][1])
                       /\ q > r =>
                              Replace(after, replacements[q][1],
                                      replacements[q][2])
                                  = Replace(Replace(out, replacements[q][1],
                                                    replacements[q][2]),
                                            replacements[r][1],
                                            replacements[r][2])
                       /\ q > r =>
                              NoOverlap(out, replacements[r][1],
                                        replacements[q][1])

\* all five rules were applied to a content that two of them match
C12_Witness ==
    /\ stage = "rules"
    /\ applied = 1..Len(replacements)
    /\ Count(content, replacements[2][1]) > 0
    /\ Count(content, replacements[4][1]) > 0
    /\ out = replacements[2][2] \o replacements[4][2]

=============================================================================
